---- MODULE Spec2Model ----
(***************************************************************************)
(* adsb_deku: the DF=17 extended-squitter decoder of src/src/adsb.rs (the  *)
(* DekuRead derives, read field by field over an MSB-first bit slice) and  *)
(* the numeric transform AirborneVelocity::calculate, driven by the line   *)
(* loop of src/apps/src/radar.rs.                                          *)
(*                                                                         *)
(* A reader takes the bit slice and the number of bits already consumed    *)
(* (pos) and returns [ok, pos, val, err, sel]: on success the new pos and  *)
(* the value; on failure the deku error kind.  sel is the list of enum     *)
(* arms matched on the way (kept on failure too).                          *)
(*                                                                         *)
(* deku enum derive: a variant with `id = ".."` is entered after the id    *)
(* bits are consumed; a variant with `id_pat = ".."` is entered with the   *)
(* slice still pointing at the id bits (its first field stores the id);    *)
(* an enum with `id = "<ctx>"` reads no id bits at all.                    *)
(***************************************************************************)
EXTENDS Integers, Sequences, FiniteSets, TLC

VARIABLES
    input,      \* the 14 bytes of the current line, as bits (<<>> once cleared)
    pc,         \* position of main's loop / of Frame::from_bytes
    cursor,     \* number of bits of input consumed so far
    df,         \* the 5-bit downlink format read, -1 before
    capability, \* ADSB.capability, -1 before it is read
    icao,       \* ADSB.icao, -1 before it is read
    me,         \* result of ME::read (a reader result), NoRead before
    me_start,   \* cursor when ME::read was entered, -1 before
    pi,         \* ADSB.pi, -1 before it is read
    result,     \* "none" | "ok" | "err": outcome of Frame::from_bytes
    calc,       \* result of AirborneVelocity::calculate, NoCalc before
    cf,         \* result of ControlField::read (a reader result), NoRead before
    subfields,  \* result of AirborneVelocitySubFields::read, NoSubFields before
    airplains,  \* main's aircraft store: the ICAO keys it holds
    screen      \* the ICAO keys painted by the last terminal.draw

vars == <<input, pc, cursor, df, capability, icao, me, me_start, pi, result, calc,
          cf, subfields, airplains, screen>>

(***************************************************************************)
(* Bounds of the input space.                                              *)
(***************************************************************************)
NumFill == 3    \* filler patterns for the bits a frame class leaves free
MaxVel  == 2    \* raw ew_vel / ns_vel range 0..MaxVel (plus the 10-bit maximum)

(***************************************************************************)
(* Bit-level helpers.                                                      *)
(***************************************************************************)
\* big-endian value of bits[pos+1 .. pos+n]
RECURSIVE ReadBits(_, _, _)
ReadBits(bits, pos, n) ==
    IF n = 0 THEN 0 ELSE 2 * ReadBits(bits, pos, n - 1) + bits[pos + n]

\* the n-bit big-endian encoding of v
RECURSIVE Bits(_, _)
Bits(v, n) == IF n = 0 THEN <<>> ELSE Bits(v \div 2, n - 1) \o <<v % 2>>

Ok(p, v, s) == [ok |-> TRUE, pos |-> p, val |-> v, err |-> "", sel |-> s]
Err(p, e, s) == [ok |-> FALSE, pos |-> p, val |-> 0, err |-> e, sel |-> s]

\* <uN>::read(rest, Size::Bits(n)): Incomplete when fewer than n bits remain
ReadU(bits, pos, n) ==
    IF pos + n <= Len(bits)
    THEN Ok(pos + n, ReadBits(bits, pos, n), <<>>)
    ELSE Err(pos, "Incomplete", <<>>)

\* the fields of a derived struct, read in declaration order; a 1-bit enum
\* with both discriminants declared (Sign, CPRFormat, VerticalRateSource,
\* StatusForGroundTrack) is a 1-bit field that cannot fail to match
RECURSIVE ReadFields(_, _, _)
ReadFields(bits, pos, widths) ==
    IF widths = <<>> THEN Ok(pos, <<>>, <<>>)
    ELSE LET r == ReadU(bits, pos, Head(widths))
         IN IF ~r.ok THEN r
            ELSE LET rs == ReadFields(bits, r.pos, Tail(widths))
                 IN IF ~rs.ok THEN rs
                    ELSE Ok(rs.pos, <<r.val>> \o rs.val, <<>>)

(***************************************************************************)
(* One-bit and small enums.                                                *)
(***************************************************************************)
\* crate::Sign (1 bit): Positive = 0, Negative = 1
Sign_read(bits, pos) == ReadU(bits, pos, 1)

\* Sign::value(): 0 -> +1, 1 -> -1
Sign_value(s) == IF s = 0 THEN 1 ELSE -1

\* enum TypeCoding, 5 bits: D = 1, C = 2, B = 3, A = 4
TypeCoding_read(bits, pos) ==
    LET r == ReadU(bits, pos, 5)
    IN IF ~r.ok THEN r
       ELSE IF r.val \in 1..4 THEN r ELSE Err(pos, "Parse", <<>>)

\* enum ADSBVersion, 3 bits: ids 0b000, 0b001, 0b010
ADSBVersion_read(bits, pos) ==
    LET r == ReadU(bits, pos, 3)
    IN IF ~r.ok THEN r
       ELSE IF r.val \in 0..2 THEN r ELSE Err(pos, "Parse", <<>>)

\* enum EmergencyState, 3 bits: discriminants 0, 1, 2, 4, 5, 6, 7
EmergencyState_read(bits, pos) ==
    LET r == ReadU(bits, pos, 3)
    IN IF ~r.ok THEN r
       ELSE IF r.val \in {0, 1, 2, 4, 5, 6, 7} THEN r ELSE Err(pos, "Parse", <<>>)

\* enum AircraftStatusType, 3 bits: id 0, id 1, and the unit variant
\* Reserved with id_pat "_" (entered without consuming the id bits)
AircraftStatusType_read(bits, pos) ==
    LET r == ReadU(bits, pos, 3)
    IN IF ~r.ok THEN r
       ELSE IF r.val = 0 THEN Ok(r.pos, "NoInformation", <<>>)
       ELSE IF r.val = 1 THEN Ok(r.pos, "EmergencyPriorityStatus", <<>>)
       ELSE Ok(pos, "Reserved", <<>>)

(***************************************************************************)
(* Identification.                                                         *)
(***************************************************************************)
CHAR_LOOKUP ==
    << "#", "A", "B", "C", "D", "E", "F", "G", "H", "I", "J", "K", "L", "M", "N", "O",
       "P", "Q", "R", "S", "T", "U", "V", "W", "X", "Y", "Z", "#", "#", "#", "#", "#",
       " ", "#", "#", "#", "#", "#", "#", "#", "#", "#", "#", "#", "#", "#", "#", "#",
       "0", "1", "2", "3", "4", "5", "6", "7", "8", "9", "#", "#", "#", "#", "#", "#" >>

\* the last value of the loop range `0..=6` of Identification::read
CnLoopLast == 6

\* CHAR_LOOKUP[b as usize] as char
LookupChar(b) == CHAR_LOOKUP[b + 1]

\* PushChar dropping the invalid code 0 as well as the space
PushChar_M(chars, c) == IF c # 32 /\ c # 0 THEN Append(chars, c) ELSE chars

\* the body of one loop iteration's filter: `if c != 32 { chars.push(c) }`
PushChar(chars, c) == IF c # 32 THEN Append(chars, c) ELSE chars

\* the `for _ in 0..=6` loop: left iterations to go, chars pushed so far
RECURSIVE ReadChars(_, _, _, _)
ReadChars(bits, pos, left, chars) ==
    IF left = 0 THEN Ok(pos, chars, <<>>)
    ELSE LET r == ReadU(bits, pos, 6)
         IN IF ~r.ok THEN r
            ELSE ReadChars(bits, r.pos, left - 1, PushChar(chars, r.val))

\* Identification::read: the loop, then the table lookup of every kept code
Identification_cn_read(bits, pos) ==
    LET r == ReadChars(bits, pos, CnLoopLast + 1, <<>>)
    IN IF ~r.ok THEN r
       ELSE Ok(r.pos, [i \in 1..Len(r.val) |-> LookupChar(r.val[i])], <<>>)

\* struct Identification { tc: TypeCoding, ca: 3 bits, cn: reader }
Identification_read(bits, pos) ==
    LET t == TypeCoding_read(bits, pos)
    IN IF ~t.ok THEN t
       ELSE LET c == ReadU(bits, t.pos, 3)
            IN IF ~c.ok THEN c
               ELSE LET n == Identification_cn_read(bits, c.pos)
                    IN IF ~n.ok THEN n
                       ELSE Ok(n.pos, [variant |-> "AircraftIdentification",
                                       tc |-> t.val, ca |-> c.val, cn |-> n.val], <<>>)

(***************************************************************************)
(* SurfacePosition, Altitude.                                              *)
(***************************************************************************)
\* struct SurfacePosition { mov 7, s 1, trk 7, t 1, f 1, lat_cpr 17, lon_cpr 17 }
SurfacePosition_read(bits, pos) ==
    LET r == ReadFields(bits, pos, <<7, 1, 7, 1, 1, 17, 17>>)
    IN IF ~r.ok THEN r
       ELSE Ok(r.pos, [variant |-> "SurfacePosition", mov |-> r.val[1], s |-> r.val[2],
                       trk |-> r.val[3], t |-> r.val[4], f |-> r.val[5],
                       lat_cpr |-> r.val[6], lon_cpr |-> r.val[7]], <<>>)

\* crate::Altitude: { tc 5, ss 2, saf_or_imf 1, alt 12, t 1, odd_flag 1,
\* lat_cpr 17, lon_cpr 17 }, the 56 bits of the ME block
Altitude_read(bits, pos, name) ==
    LET f == ReadFields(bits, pos, <<5, 2, 1, 12, 1, 1, 17, 17>>)
    IN IF ~f.ok THEN f
       ELSE Ok(f.pos, [variant |-> name, tc |-> f.val[1], alt_raw |-> f.val[4],
                       odd_flag |-> f.val[6], lat_cpr |-> f.val[7],
                       lon_cpr |-> f.val[8]], <<>>)

(***************************************************************************)
(* AirborneVelocity.                                                       *)
(***************************************************************************)
\* struct GroundSpeedDecoding { ew_sign: Sign, ew_vel 10, ns_sign: Sign, ns_vel 10 }
GroundSpeedDecoding_read(bits, pos) ==
    LET r == ReadFields(bits, pos, <<1, 10, 1, 10>>)
    IN IF ~r.ok THEN r
       ELSE Ok(r.pos, [variant |-> "GroundSpeedDecoding",
                       ew_sign |-> r.val[1], ew_vel |-> r.val[2],
                       ns_sign |-> r.val[3], ns_vel |-> r.val[4]], <<>>)

\* struct AirspeedDecoding { status_heading 1, mag_heading 10, airspeed_type 1, airspeed 10 }
AirspeedDecoding_read(bits, pos) ==
    LET r == ReadFields(bits, pos, <<1, 10, 1, 10>>)
    IN IF ~r.ok THEN r
       ELSE Ok(r.pos, [variant |-> "AirspeedDecoding",
                       status_heading |-> r.val[1], mag_heading |-> r.val[2],
                       airspeed_type |-> r.val[3], airspeed |-> r.val[4]], <<>>)

\* AirborneVelocitySubType_read as an enum that reads its own 3-bit id from
\* the slice (type = "u8", bits = "3") instead of taking it from the context
AirborneVelocitySubType_read_M(bits, pos, st) ==
    LET d == ReadU(bits, pos, 3)
    IN IF ~d.ok THEN d
       ELSE IF d.val \in 1..2
       THEN LET r == GroundSpeedDecoding_read(bits, d.pos)
            IN [r EXCEPT !.sel = <<"GroundSpeedDecoding">>]
       ELSE IF d.val \in 3..4
       THEN LET r == AirspeedDecoding_read(bits, d.pos)
            IN [r EXCEPT !.sel = <<"AirspeedDecoding">>]
       ELSE Err(pos, "Parse", <<>>)

\* enum AirborneVelocitySubType, ctx = "st: u8", id = "st": the id is the
\* context value, no bits are read for it
AirborneVelocitySubType_read(bits, pos, st) ==
    IF st \in 1..2
    THEN LET r == GroundSpeedDecoding_read(bits, pos)
         IN [r EXCEPT !.sel = <<"GroundSpeedDecoding">>]
    ELSE IF st \in 3..4
    THEN LET r == AirspeedDecoding_read(bits, pos)
         IN [r EXCEPT !.sel = <<"AirspeedDecoding">>]
    ELSE Err(pos, "Parse", <<>>)

\* the map of gnss_baro_diff (u16)
GnssBaroDiffMap(raw) == IF raw > 1 THEN (raw - 1) * 25 ELSE 0

\* struct AirborneVelocity { st 3, extra 5, sub_type (ctx st), vrate_src 1,
\* vrate_sign: Sign, vrate_value 9, reverved 2, gnss_sign: Sign, gnss_baro_diff 7 }
AirborneVelocity_read(bits, pos) ==
    LET h == ReadFields(bits, pos, <<3, 5>>)
    IN IF ~h.ok THEN h
       ELSE LET sub == AirborneVelocitySubType_read(bits, h.pos, h.val[1])
            IN IF ~sub.ok THEN sub
               ELSE LET t == ReadFields(bits, sub.pos, <<1, 1, 9, 2, 1, 7>>)
                    IN IF ~t.ok THEN [t EXCEPT !.sel = sub.sel]
                       ELSE Ok(t.pos,
                               [variant |-> "AirborneVelocity",
                                st |-> h.val[1], extra |-> h.val[2],
                                sub_type |-> sub.val,
                                vrate_src |-> t.val[1], vrate_sign |-> t.val[2],
                                vrate_value |-> t.val[3], reverved |-> t.val[4],
                                gnss_sign |-> t.val[5],
                                gnss_baro_diff |-> GnssBaroDiffMap(t.val[6])],
                               sub.sel)

(***************************************************************************)
(* AircraftStatus, TargetStateAndStatusInformation.                        *)
(***************************************************************************)
\* struct AircraftStatus { sub_type: AircraftStatusType, emergency_state:
\* EmergencyState, squawk 13 (kept raw: decode_id13_field is another file's) }
AircraftStatus_read(bits, pos) ==
    LET t == AircraftStatusType_read(bits, pos)
    IN IF ~t.ok THEN t
       ELSE LET e == EmergencyState_read(bits, t.pos)
            IN IF ~e.ok THEN e
               ELSE LET q == ReadU(bits, e.pos, 13)
                    IN IF ~q.ok THEN q
                       ELSE Ok(q.pos, [variant |-> "AircraftStatus", sub_type |-> t.val,
                                       emergency_state |-> e.val,
                                       squawk_raw |-> q.val], <<>>)

\* the altitude map scaling the raw value itself
TargetAltitudeMap_M(raw) == IF raw > 1 THEN raw * 32 ELSE 0

\* the map of TargetStateAndStatusInformation.altitude (u32; the largest
\* value, 4094 * 32, is far below 2^32)
TargetAltitudeMap(raw) == IF raw > 1 THEN (raw - 1) * 32 ELSE 0

\* struct TargetStateAndStatusInformation: subtype 2, is_fms 1, altitude 12,
\* qnh 9, is_heading 1, heading 9, nacp 4, nicbaro 1, sil 2, eight 1-bit
\* flags, reserved 2
TargetStateAndStatusInformation_read(bits, pos) ==
    LET r == ReadFields(bits, pos, <<2, 1, 12, 9, 1, 9, 4, 1, 2, 1, 1, 1, 1, 1, 1, 1, 1, 2>>)
    IN IF ~r.ok THEN r
       ELSE Ok(r.pos, [variant |-> "TargetStateAndStatusInformation",
                       subtype |-> r.val[1], is_fms |-> r.val[2],
                       altitude |-> TargetAltitudeMap(r.val[3]),
                       qnh_raw |-> r.val[4], is_heading |-> r.val[5],
                       heading_raw |-> r.val[6], nacp |-> r.val[7],
                       nicbaro |-> r.val[8], sil |-> r.val[9]], <<>>)

(***************************************************************************)
(* AircraftOperationStatus.                                                *)
(***************************************************************************)
\* struct CapabilityCode { reserved0 2, acas 1, cdti 1, reserved1 2, arv 1,
\* ts 1, tc 2, reserved2 6 }
CapabilityCode_read(bits, pos) == ReadFields(bits, pos, <<2, 1, 1, 2, 1, 1, 2, 6>>)

\* struct OperationStatusAirborne { capability_codes, operational_mode_unused1 5,
\* saf 1, sda 2, operational_mode_unused2: u8, version_number: ADSBVersion,
\* nic_supplement_a 1, nac 4, gva 2, sil 2, nicbaro 1, hrd 1, sil_supplement 1,
\* reserved 1 }
OperationStatusAirborne_read(bits, pos) ==
    LET c == CapabilityCode_read(bits, pos)
    IN IF ~c.ok THEN c
       ELSE LET m == ReadFields(bits, c.pos, <<5, 1, 2, 8>>)
            IN IF ~m.ok THEN m
               ELSE LET v == ADSBVersion_read(bits, m.pos)
                    IN IF ~v.ok THEN v
                       ELSE LET t == ReadFields(bits, v.pos, <<1, 4, 2, 2, 1, 1, 1, 1>>)
                            IN IF ~t.ok THEN t
                               ELSE Ok(t.pos, [variant |-> "Airborne",
                                               capability_codes |-> c.val,
                                               version_number |-> v.val,
                                               tail |-> t.val], <<>>)

\* struct OperationStatusSurface { capacity_codes, capacity_len_code 4,
\* operational_mode_codes: u16, version_number: ADSBVersion, nic_supplement_a 1,
\* nac 4, reserved0 1, sil 2, track_angle_or_heading 1, hrd 1, sil_supplement 1,
\* reserved1 1 }
OperationStatusSurface_read(bits, pos) ==
    LET c == CapabilityCode_read(bits, pos)
    IN IF ~c.ok THEN c
       ELSE LET m == ReadFields(bits, c.pos, <<4, 16>>)
            IN IF ~m.ok THEN m
               ELSE LET v == ADSBVersion_read(bits, m.pos)
                    IN IF ~v.ok THEN v
                       ELSE LET t == ReadFields(bits, v.pos, <<1, 4, 1, 2, 1, 1, 1, 1>>)
                            IN IF ~t.ok THEN t
                               ELSE Ok(t.pos, [variant |-> "Surface",
                                               capacity_codes |-> c.val,
                                               capacity_len_code |-> m.val[1],
                                               version_number |-> v.val,
                                               tail |-> t.val], <<>>)

\* OperationStatus_read with Surface as the catch-all arm (id_pat = "_")
OperationStatus_read_M(bits, pos) ==
    LET r == ReadU(bits, pos, 3)
    IN IF ~r.ok THEN r
       ELSE IF r.val = 0
       THEN [OperationStatusAirborne_read(bits, r.pos) EXCEPT !.sel = <<"Airborne">>]
       ELSE [OperationStatusSurface_read(bits, r.pos) EXCEPT !.sel = <<"Surface">>]

\* enum OperationStatus, 3 bits: id 0 Airborne, id 1 Surface
OperationStatus_read(bits, pos) ==
    LET r == ReadU(bits, pos, 3)
    IN IF ~r.ok THEN r
       ELSE IF r.val = 0
       THEN [OperationStatusAirborne_read(bits, r.pos) EXCEPT !.sel = <<"Airborne">>]
       ELSE IF r.val = 1
       THEN [OperationStatusSurface_read(bits, r.pos) EXCEPT !.sel = <<"Surface">>]
       ELSE Err(pos, "Parse", <<>>)

(***************************************************************************)
(* ME.                                                                     *)
(***************************************************************************)
\* ME_arm with the barometric range ending one type code early
ME_arm_M(tc) ==
    IF tc \in 1..4 THEN "AircraftIdentification"
    ELSE IF tc \in 5..8 THEN "SurfacePosition"
    ELSE IF tc \in 9..17 THEN "AirbornePositionBaroAltitude"
    ELSE IF tc = 19 THEN "AirborneVelocity"
    ELSE IF tc \in {18, 20, 21, 22} THEN "AirbornePositionGNSSAltitude"
    ELSE IF tc \in 23..27 THEN "Reserved"
    ELSE IF tc = 28 THEN "AircraftStatus"
    ELSE IF tc = 29 THEN "TargetStateAndStatusInformation"
    ELSE IF tc = 31 THEN "AircraftOperationStatus"
    ELSE "None"

\* the arm of enum ME an id selects; "None" when no arm matches
ME_arm(tc) ==
    IF tc \in 1..4 THEN "AircraftIdentification"
    ELSE IF tc \in 5..8 THEN "SurfacePosition"
    ELSE IF tc \in 9..18 THEN "AirbornePositionBaroAltitude"
    ELSE IF tc = 19 THEN "AirborneVelocity"
    ELSE IF tc \in 20..22 THEN "AirbornePositionGNSSAltitude"
    ELSE IF tc \in 23..27 THEN "Reserved"
    ELSE IF tc = 28 THEN "AircraftStatus"
    ELSE IF tc = 29 THEN "TargetStateAndStatusInformation"
    ELSE IF tc = 31 THEN "AircraftOperationStatus"
    ELSE "None"

\* the payload of the selected arm: an `id` arm starts after the 5 id bits
\* (idpos), an `id_pat` arm at the id bits themselves (pos)
ME_payload(bits, pos, idpos, arm) ==
    CASE arm = "AircraftIdentification" -> Identification_read(bits, pos)
      [] arm = "SurfacePosition" -> SurfacePosition_read(bits, pos)
      [] arm = "AirbornePositionBaroAltitude" -> Altitude_read(bits, pos, arm)
      [] arm = "AirborneVelocity" -> AirborneVelocity_read(bits, idpos)
      [] arm = "AirbornePositionGNSSAltitude" -> Altitude_read(bits, pos, arm)
      [] arm = "Reserved" -> Ok(pos, [variant |-> "Reserved"], <<>>)
      [] arm = "AircraftStatus" -> AircraftStatus_read(bits, idpos)
      [] arm = "TargetStateAndStatusInformation" ->
             TargetStateAndStatusInformation_read(bits, idpos)
      [] arm = "AircraftOperationStatus" ->
             LET o == OperationStatus_read(bits, idpos)
             IN IF ~o.ok THEN o
                ELSE Ok(o.pos, [variant |-> "AircraftOperationStatus", os |-> o.val], o.sel)

\* enum ME, type u8, bits 5
ME_read(bits, pos) ==
    LET r == ReadU(bits, pos, 5)
    IN IF ~r.ok THEN r
       ELSE IF ME_arm(r.val) = "None" THEN Err(pos, "Parse", <<"None">>)
       ELSE LET p == ME_payload(bits, pos, r.pos, ME_arm(r.val))
            IN [p EXCEPT !.sel = <<ME_arm(r.val)>> \o p.sel]

(***************************************************************************)
(* AirborneVelocitySubFields and its reader read_v.  The u16 arithmetic of  *)
(* read_v is unchecked: where it leaves the u16 range a debug build panics *)
(* and a release build wraps, so the build is a parameter.                 *)
(***************************************************************************)
\* a - b on u16
U16Sub(a, b, build) ==
    IF a - b >= 0 THEN [panic |-> FALSE, val |-> a - b]
    ELSE IF build = "debug" THEN [panic |-> TRUE, val |-> 0]
    ELSE [panic |-> FALSE, val |-> (a - b) % 65536]

\* a * b on u16
U16Mul(a, b, build) ==
    IF a * b <= 65535 THEN [panic |-> FALSE, val |-> a * b]
    ELSE IF build = "debug" THEN [panic |-> TRUE, val |-> 0]
    ELSE [panic |-> FALSE, val |-> (a * b) % 65536]

\* fn read_v(rest, t): Subsonic -> value - 1, Supersonic -> 4 * (value - 1)
read_v(bits, pos, t, build) ==
    LET r == ReadU(bits, pos, 10)
    IN IF ~r.ok THEN [outcome |-> "err", pos |-> pos, val |-> 0]
       ELSE LET d == U16Sub(r.val, 1, build)
                q == IF t = "Subsonic" THEN d ELSE U16Mul(4, d.val, build)
            IN IF d.panic \/ q.panic
               THEN [outcome |-> "panic", pos |-> pos, val |-> 0]
               ELSE [outcome |-> "ok", pos |-> r.pos, val |-> q.val]

\* struct AirborneVelocitySubFields (ctx t: AirborneVelocityType)
\* { dew: DirectionEW (1), vew: read_v, dns: DirectionNS (1), vns: read_v }
AirborneVelocitySubFields_read(bits, pos, t, build) ==
    LET dew == ReadU(bits, pos, 1)
        vew == read_v(bits, dew.pos, t, build)
        dns == ReadU(bits, vew.pos, 1)
        vns == read_v(bits, dns.pos, t, build)
        fail(o) == [called |-> TRUE, t |-> t, outcome |-> o]
    IN IF ~dew.ok THEN fail("err")
       ELSE IF vew.outcome # "ok" THEN fail(vew.outcome)
       ELSE IF ~dns.ok THEN fail("err")
       ELSE IF vns.outcome # "ok" THEN fail(vns.outcome)
       ELSE [called |-> TRUE, t |-> t, outcome |-> "ok",
             dew |-> dew.val, vew |-> vew.val, dns |-> dns.val, vns |-> vns.val]

(***************************************************************************)
(* ADSB as one reader, ADSB_ICAO and ControlField (the body of DF::TisB).   *)
(***************************************************************************)
\* ADSB.pi after the capability, the address (h) and the ME (m)
ADSB_pi(bits, h, m) ==
    IF ~m.ok THEN m
    ELSE LET q == ReadU(bits, m.pos, 24)
         IN IF ~q.ok THEN [q EXCEPT !.sel = m.sel]
            ELSE Ok(q.pos, [variant |-> "ADSB", capability |-> h.val[1],
                            icao |-> h.val[2], me |-> m.val, pi |-> q.val], m.sel)

\* struct ADSB { capability: Capability (3), icao: ICAO (24), me: ME,
\* pi: 24 bits }
ADSB_read(bits, pos) ==
    LET h == ReadFields(bits, pos, <<3, 24>>)
    IN IF ~h.ok THEN h
       ELSE ADSB_pi(bits, h, ME_read(bits, h.pos))

\* struct ADSB_ICAO { aa: ICAO (24), me: Vec<u8> with count = 7, pi: ICAO (24) }
ADSB_ICAO_read(bits, pos) ==
    LET r == ReadFields(bits, pos, <<24, 8, 8, 8, 8, 8, 8, 8, 24>>)
    IN IF ~r.ok THEN r
       ELSE Ok(r.pos, [variant |-> "ADSB_ICAO", aa |-> r.val[1],
                       me |-> SubSeq(r.val, 2, 8), pi |-> r.val[9]], <<>>)

\* the result b of reading a variant's payload, with the variant's name
\* put in front of the arms matched
Variant(name, b) == [b EXCEPT !.sel = <<name>> \o b.sel]

\* ControlField with code 2 accepted as an announced-address message
ControlField_read_M(bits, pos) ==
    LET r == ReadU(bits, pos, 3)
    IN IF ~r.ok THEN r
       ELSE IF r.val = 0 THEN Variant("ADSB_ES_NT", ADSB_ICAO_read(bits, r.pos))
       ELSE IF r.val = 1 THEN Variant("ADSB_ES_NT_ALT", ADSB_ICAO_read(bits, r.pos))
       ELSE IF r.val = 2 THEN Variant("TISB_FINE", ADSB_ICAO_read(bits, r.pos))
       ELSE IF r.val = 6 THEN Variant("TISB_DF17", ADSB_read(bits, r.pos))
       ELSE Err(r.pos, "Parse", <<>>)

\* enum ControlField (type u8, bits 3): id 0 ADSB_ES_NT(ADSB_ICAO),
\* id 1 ADSB_ES_NT_ALT(ADSB_ICAO), id 6 TISB_DF17(ADSB); no other arm
ControlField_read(bits, pos) ==
    LET r == ReadU(bits, pos, 3)
    IN IF ~r.ok THEN r
       ELSE IF r.val = 0 THEN Variant("ADSB_ES_NT", ADSB_ICAO_read(bits, r.pos))
       ELSE IF r.val = 1 THEN Variant("ADSB_ES_NT_ALT", ADSB_ICAO_read(bits, r.pos))
       ELSE IF r.val = 6 THEN Variant("TISB_DF17", ADSB_read(bits, r.pos))
       ELSE Err(r.pos, "Parse", <<>>)

(***************************************************************************)
(* AirborneVelocity::calculate.  The heading is a function of (v_ew, v_ns) *)
(* and the ground speed is hypot(v_ew, v_ns): the result keeps v_ew, v_ns  *)
(* and the square of the ground speed, which are exact integers.           *)
(***************************************************************************)
\* a value reduced to i16 (two's complement, as a release build wraps)
WrapI16(x) == ((x + 32768) % 65536) - 32768

\* (vel as i16 - 1) * sign.value()
SignedVel(vel, sign) == WrapI16((WrapI16(vel) - 1) * Sign_value(sign))

\* VRate without the subtraction of 1 (raw value scaled directly)
VRate_M(vrate_value, vrate_sign) ==
    IF vrate_value = 0 THEN [some |-> FALSE, val |-> 0]
    ELSE IF vrate_value * 64 > 65535 THEN [some |-> FALSE, val |-> 0]
    ELSE [some |-> TRUE,
          val |-> WrapI16(WrapI16(vrate_value * 64) * Sign_value(vrate_sign))]

\* vrate_value.checked_sub(1).and_then(|v| v.checked_mul(64))
\*     .map(|v| (v as i16) * self.vrate_sign.value())
VRate(vrate_value, vrate_sign) ==
    IF vrate_value - 1 < 0 THEN [some |-> FALSE, val |-> 0]
    ELSE IF (vrate_value - 1) * 64 > 65535 THEN [some |-> FALSE, val |-> 0]
    ELSE [some |-> TRUE,
          val |-> WrapI16(WrapI16((vrate_value - 1) * 64) * Sign_value(vrate_sign))]

\* An angle in degrees, kept exactly as  base + atan(num / den)  with
\* num >= 0 and den > 0, so that the atan term lies in [0, 90).
Angle(base, num, den) == [base |-> base, num |-> num, den |-> den]

\* v_ew.atan2(v_ns) * (360.0 / (2.0 * PI)) for integer y = v_ew, x = v_ns:
\* the result lies in (-180, 180], and is +0.0 for y = 0, x >= 0
Atan2Deg(y, x) ==
    IF y = 0 THEN (IF x >= 0 THEN Angle(0, 0, 1) ELSE Angle(180, 0, 1))
    ELSE IF y > 0
         THEN (IF x > 0 THEN Angle(0, y, x)
               ELSE IF x = 0 THEN Angle(90, 0, 1)
               ELSE Angle(90, -x, y))
         ELSE (IF x >= 0 THEN Angle(-90, x, -y)
               ELSE Angle(-180, -y, -x))

\* h < 0.0: the atan term is below 90, so the sign is the sign of the base
Negative(h) == h.base < 0

\* the heading without the shift of a negative angle
HeadingOf_M(h) == h

\* let heading = if h < 0.0 { h + 360.0 } else { h };
HeadingOf(h) == IF Negative(h) THEN [h EXCEPT !.base = h.base + 360] ELSE h

NoSubFields == [called |-> FALSE]
NoCalc == [called |-> FALSE, some |-> FALSE]
None == [called |-> TRUE, some |-> FALSE]

Calculate(av) ==
    IF av.sub_type.variant = "GroundSpeedDecoding"
    THEN LET ground_speed == av.sub_type
             v_ew == SignedVel(ground_speed.ew_vel, ground_speed.ew_sign)
             v_ns == SignedVel(ground_speed.ns_vel, ground_speed.ns_sign)
             vrate == VRate(av.vrate_value, av.vrate_sign)
         IN IF vrate.some
            THEN [called |-> TRUE, some |-> TRUE, v_ew |-> v_ew, v_ns |-> v_ns,
                  h |-> Atan2Deg(v_ew, v_ns),
                  heading |-> HeadingOf(Atan2Deg(v_ew, v_ns)),
                  ground_speed_sq |-> v_ew * v_ew + v_ns * v_ns,
                  vertical_rate |-> vrate.val]
            ELSE None
    ELSE None

(***************************************************************************)
(* The 14-byte frames carried by the transport's lines, by class.           *)
(***************************************************************************)
\* DF (5 bits), CA = 5, ICAO 4840D6
Header(dfid) == Bits(dfid, 5) \o Bits(5, 3) \o Bits(4735190, 24)

\* PI 576098
Trailer == Bits(5726360, 24)

FillBit(k, i) == IF k = 0 THEN 0 ELSE ((i \div k) + k) % 2
Fill(k, n) == [i \in 1..n |-> FillBit(k, i)]

RECURSIVE CodesBits(_)
CodesBits(cs) == IF cs = <<>> THEN <<>> ELSE Bits(Head(cs), 6) \o CodesBits(Tail(cs))

\* every type code with every 3-bit field after it
DispatchFrames ==
    { Header(17) \o Bits(tc, 5) \o Bits(sub, 3) \o Fill(k, 48) \o Trailer :
        tc \in 0..31, sub \in 0..7, k \in 0..(NumFill - 1) }

\* callsigns: letter p or a space at position p; any code at the first or
\* last position around a space at position 4
Callsigns ==
    { [p \in 1..8 |-> IF p \in S THEN 32 ELSE p] : S \in SUBSET (1..8) }
    \cup { [p \in 1..8 |-> IF p = q THEN c ELSE IF p = 4 THEN 32 ELSE p] :
              q \in {1, 8}, c \in 0..63 }

IdentFrames ==
    { Header(17) \o Bits(4, 5) \o Bits(0, 3) \o CodesBits(cs) \o Trailer : cs \in Callsigns }

VelocityFrame(st, ew_sign, ew_vel, ns_sign, ns_vel, vrate_sign, vrate_value) ==
    Header(17) \o Bits(19, 5) \o Bits(st, 3) \o Bits(0, 5)
        \o Bits(ew_sign, 1) \o Bits(ew_vel, 10) \o Bits(ns_sign, 1) \o Bits(ns_vel, 10)
        \o Bits(0, 1) \o Bits(vrate_sign, 1) \o Bits(vrate_value, 9) \o Bits(0, 2)
        \o Bits(0, 1) \o Bits(3, 7) \o Trailer

VelSamples == (0..MaxVel) \cup {1023}

VelocityFrames ==
    { VelocityFrame(st, es, ev, ns, nv, 1, 14) :
        st \in 0..7, es \in 0..1, ev \in VelSamples, ns \in 0..1, nv \in VelSamples }
    \cup { VelocityFrame(1, 0, 5, 1, 9, vs, vv) : vs \in 0..1, vv \in 0..511 }

\* a TC=29 frame with the given raw 12-bit target altitude
TargetAltitudeFrame(raw) ==
    Header(17) \o Bits(29, 5) \o Bits(1, 2) \o Bits(0, 1) \o Bits(raw, 12)
        \o Fill(1, 36) \o Trailer

\* a TC=19 frame with the given raw 7-bit GNSS-baro difference
GnssFrame(gnss_sign, raw) ==
    Header(17) \o Bits(19, 5) \o Bits(1, 3) \o Bits(0, 5)
        \o Bits(0, 1) \o Bits(5, 10) \o Bits(1, 1) \o Bits(9, 10)
        \o Bits(0, 1) \o Bits(1, 1) \o Bits(14, 9) \o Bits(0, 2)
        \o Bits(gnss_sign, 1) \o Bits(raw, 7) \o Trailer

\* every raw value of the two rescaled fields
RawFieldFrames ==
    { TargetAltitudeFrame(raw) : raw \in 0..4095 }
    \cup { GnssFrame(gs, raw) : gs \in 0..1, raw \in 0..127 }

\* TC=28 frames: every subtype with every emergency state
AircraftStatusFrames ==
    { Header(17) \o Bits(28, 5) \o Bits(sub, 3) \o Bits(es, 3) \o Bits(4660, 13)
          \o Fill(1, 32) \o Trailer :
        sub \in 0..7, es \in 0..7 }

\* DF=18 frames: every control field, over bodies that hold a TC=28, a
\* TC=19 or a TC=0 message where a DF=17-shaped body has its ME
TisbFrames ==
    { Bits(18, 5) \o Bits(c, 3) \o Bits(5, 3) \o Bits(4735190, 24)
          \o Bits(tc, 5) \o Fill(k, 72) :
        c \in 0..7, tc \in {0, 19, 28}, k \in 0..(NumFill - 1) }

\* a frame of a downlink format other than 17
OtherDfFrames == { Header(0) \o Fill(1, 56) \o Trailer }

Frames ==
    DispatchFrames \cup IdentFrames \cup VelocityFrames \cup AircraftStatusFrames
        \cup TisbFrames \cup OtherDfFrames

(***************************************************************************)
(* The text lines of the transport and main's way from a line to bytes.    *)
(* A line is a sequence of ASCII codes.                                    *)
(***************************************************************************)
\* the upper-case hex digit of a value 0..15
HexChar(d) == IF d < 10 THEN 48 + d ELSE 55 + d

\* the value of a hex digit ('0'..'9', 'A'..'F', 'a'..'f'), -1 for any
\* other character
HexVal(c) ==
    IF c \in 48..57 THEN c - 48
    ELSE IF c \in 65..70 THEN c - 55
    ELSE IF c \in 97..102 THEN c - 87
    ELSE -1

HexOf(bits) == [i \in 1..(Len(bits) \div 4) |-> HexChar(ReadBits(bits, 4 * (i - 1), 4))]

\* "*<hex>;\n"
LineOf(bits) == <<42>> \o HexOf(bits) \o <<59, 10>>

\* lines that are not "*<28 hex chars>;\n": "\n", "*;\n", a 7-byte frame,
\* "*8d4;\n" (an odd number of digits), "*8Dg4;\n" (a non-hex character)
OtherLines ==
    { <<10>>,
      <<42, 59, 10>>,
      LineOf(Header(17) \o Bits(5726360, 24)),
      <<42, 56, 100, 52, 59, 10>>,
      <<42, 56, 68, 103, 52, 59, 10>> }

Lines == { LineOf(f) : f \in Frames } \cup OtherLines

\* &input.to_string()[1..len - 2]: len - 2 underflows for len < 2 and the
\* range 1..0 is rejected for len = 2; either way main panics
SliceHex(line) ==
    IF Len(line) < 3 THEN [panic |-> TRUE, val |-> <<>>]
    ELSE [panic |-> FALSE, val |-> SubSeq(line, 2, Len(line) - 2)]

\* hex::decode(&hex).unwrap(): an odd length or a non-hex character is an
\* Err, which unwrap() turns into a panic; otherwise the bytes, as bits
HexDecode(hex) ==
    IF Len(hex) % 2 # 0 \/ (\E i \in 1..Len(hex) : HexVal(hex[i]) = -1)
    THEN [panic |-> TRUE, val |-> <<>>]
    ELSE [panic |-> FALSE,
          val |-> [i \in 1..(4 * Len(hex)) |->
                      Bits(HexVal(hex[((i - 1) \div 4) + 1]), 4)[((i - 1) % 4) + 1]]]

(***************************************************************************)
(* The aircraft store of main (apps::Airplanes), by its keys.              *)
(***************************************************************************)
\* airplains.add_extended_quitter_ap(icao, frame)
Add(store, key) == store \cup {key}

\* airplains.prune(): entries older than a bounded age are removed; which
\* entries are that old is not visible here, the entries added in this
\* iteration (fresh) are not
PruneOutcomes(store, fresh) == { kept \in SUBSET store : fresh \subseteq kept }

(***************************************************************************)
(* The state machine.                                                      *)
(***************************************************************************)
NoRead == [ok |-> FALSE, pos |-> 0, val |-> 0, err |-> "", sel |-> <<>>]

Init ==
    /\ input = <<>>
    /\ pc = "read"
    /\ cursor = 0
    /\ df = -1
    /\ capability = -1
    /\ icao = -1
    /\ me = NoRead
    /\ me_start = -1
    /\ pi = -1
    /\ result = "none"
    /\ calc = NoCalc
    /\ cf = NoRead
    /\ subfields = NoSubFields
    /\ airplains = {}
    /\ screen = {}

\* reader.read_line(&mut input), the slice [1..len - 2] and
\* hex::decode(&hex).unwrap(): the bytes of the line, or a panic of main
ReadLine ==
    /\ pc = "read"
    /\ \E line \in Lines :
          LET hex == SliceHex(line)
              bytes == IF hex.panic THEN hex ELSE HexDecode(hex.val)
          IN IF bytes.panic
             THEN /\ input' = <<>>
                  /\ pc' = "panic"
             ELSE /\ input' = bytes.val
                  /\ pc' = "df"
    /\ UNCHANGED <<cursor, df, capability, icao, me, me_start, pi, result, calc,
                 cf, subfields, airplains, screen>>

\* Frame::from_bytes: the 5-bit DF; DF 17 is DF::ADSB(ADSB), DF 18 is
\* DF::TisB, whose body starts with the ControlField
FrameDF ==
    /\ pc = "df"
    /\ LET r == ReadU(input, cursor, 5)
       IN IF r.ok /\ r.val \in {17, 18}
          THEN /\ df' = r.val
               /\ cursor' = r.pos
               /\ pc' = IF r.val = 17 THEN "adsb" ELSE "cf"
               /\ result' = result
          ELSE /\ df' = IF r.ok THEN r.val ELSE df
               /\ cursor' = cursor
               /\ pc' = "end"
               /\ result' = "err"
    /\ UNCHANGED <<input, capability, icao, me, me_start, pi, calc,
                 cf, subfields, airplains, screen>>

\* ADSB.capability (Capability, 3 bits) and ADSB.icao (ICAO, 24 bits)
AdsbCapabilityIcao ==
    /\ pc = "adsb"
    /\ LET r == ReadFields(input, cursor, <<3, 24>>)
       IN IF r.ok
          THEN /\ capability' = r.val[1]
               /\ icao' = r.val[2]
               /\ cursor' = r.pos
               /\ pc' = "me"
               /\ result' = result
          ELSE /\ UNCHANGED <<capability, icao, cursor>>
               /\ pc' = "end"
               /\ result' = "err"
    /\ UNCHANGED <<input, df, me, me_start, pi, calc,
                 cf, subfields, airplains, screen>>

\* ADSB.me
AdsbMe ==
    /\ pc = "me"
    /\ me' = ME_read(input, cursor)
    /\ me_start' = cursor
    /\ IF me'.ok
       THEN /\ cursor' = me'.pos
            /\ pc' = "pi"
            /\ result' = result
       ELSE /\ cursor' = cursor
            /\ pc' = "end"
            /\ result' = "err"
    /\ UNCHANGED <<input, df, capability, icao, pi, calc,
                 cf, subfields, airplains, screen>>

\* ADSB.pi: #[deku(bits = "24")] u32
AdsbPi ==
    /\ pc = "pi"
    /\ LET r == ReadU(input, cursor, 24)
       IN IF r.ok
          THEN /\ pi' = r.val
               /\ cursor' = r.pos
               /\ result' = "ok"
          ELSE /\ UNCHANGED <<pi, cursor>>
               /\ result' = "err"
    /\ pc' = "end"
    /\ UNCHANGED <<input, df, capability, icao, me, me_start, calc,
                 cf, subfields, airplains, screen>>

\* DF::TisB: ControlField::read on the bits after the DF.  A control field
\* no arm matches fails the frame; what DF::TisB holds after an accepted
\* control field is the crate root's, so the frame then ends either way.
TisbControlField ==
    /\ pc = "cf"
    /\ cf' = ControlField_read(input, cursor)
    /\ IF cf'.ok
       THEN /\ cursor' = cf'.pos
            /\ result' \in {"ok", "err"}
       ELSE /\ cursor' = cursor
            /\ result' = "err"
    /\ pc' = "end"
    /\ UNCHANGED <<input, df, capability, icao, me, me_start, pi, calc,
                   subfields, airplains, screen>>

\* airborne_velocity.calculate() (a pub fn, also called by ADSB::to_string)
\* on the AirborneVelocity of a decoded frame
CalculateStep ==
    /\ pc = "end"
    /\ result = "ok"
    /\ me.ok
    /\ me.val.variant = "AirborneVelocity"
    /\ ~calc.called
    /\ ~subfields.called
    /\ calc' = Calculate(me.val)
    /\ UNCHANGED <<input, pc, cursor, df, capability, icao, me, me_start, pi, result,
                 cf, subfields, airplains, screen>>

\* AirborneVelocitySubFields::read (a pub struct deriving DekuRead, with the
\* velocity type as context) on the direction and velocity bits of the
\* velocity message of a decoded frame, in either build
SubFieldsStep ==
    /\ pc = "end"
    /\ result = "ok"
    /\ me.ok
    /\ me.val.variant = "AirborneVelocity"
    /\ ~calc.called
    /\ ~subfields.called
    /\ \E t \in {"Subsonic", "Supersonic"}, build \in {"debug", "release"} :
          subfields' = AirborneVelocitySubFields_read(input, me_start + 13, t, build)
    /\ UNCHANGED <<input, pc, cursor, df, capability, icao, me, me_start, pi, result,
                   calc, cf, airplains, screen>>

\* the frame is one main stores: DF::ADSB with ME::AirbornePositionBaroAltitude
Stored ==
    /\ result = "ok"
    /\ df = 17
    /\ me.ok
    /\ me.val.variant = "AirbornePositionBaroAltitude"

\* the rest of the iteration: the match on the result of Frame::from_bytes
\* (Ok: the store is added to for a stored frame; Err(_e) => ()), then
\* input.clear(), airplains.prune() and terminal.draw(..); the frame and
\* everything decoded from it are dropped
LoopEnd ==
    /\ pc = "end"
    /\ LET fresh == IF Stored THEN {icao} ELSE {}
           added == IF Stored THEN Add(airplains, icao) ELSE airplains
       IN /\ airplains' \in PruneOutcomes(added, fresh)
          /\ screen' = airplains'
    /\ input' = <<>>
    /\ pc' = "read"
    /\ cursor' = 0
    /\ df' = -1
    /\ capability' = -1
    /\ icao' = -1
    /\ me' = NoRead
    /\ me_start' = -1
    /\ pi' = -1
    /\ result' = "none"
    /\ calc' = NoCalc
    /\ cf' = NoRead
    /\ subfields' = NoSubFields

Next ==
    \/ ReadLine
    \/ FrameDF
    \/ AdsbCapabilityIcao
    \/ AdsbMe
    \/ AdsbPi
    \/ TisbControlField
    \/ CalculateStep
    \/ SubFieldsStep
    \/ LoopEnd

Spec == Init /\ [][Next]_vars

(***************************************************************************)
(* Frame::from_bytes alone, applied to every raw value of the rescaled     *)
(* fields: the bytes are given and the decode runs once.                   *)
(***************************************************************************)
InitParse ==
    /\ input \in RawFieldFrames
    /\ pc = "df"
    /\ cursor = 0
    /\ df = -1
    /\ capability = -1
    /\ icao = -1
    /\ me = NoRead
    /\ me_start = -1
    /\ pi = -1
    /\ result = "none"
    /\ calc = NoCalc
    /\ cf = NoRead
    /\ subfields = NoSubFields
    /\ airplains = {}
    /\ screen = {}

NextParse ==
    \/ FrameDF
    \/ AdsbCapabilityIcao
    \/ AdsbMe
    \/ AdsbPi

SpecParse == InitParse /\ [][NextParse]_vars

(***************************************************************************)
(* What a frame holds on the wire, read straight from the input bits.      *)
(***************************************************************************)
MeRead == me_start # -1                      \* ME::read has been applied
WireTC == ReadBits(input, me_start, 5)       \* the 5-bit type code
WireSub == ReadBits(input, me_start + 5, 3)  \* the 3 bits after the type code

\* the first n 6-bit character codes after the type code and the category
WireCodes(n) == [i \in 1..n |-> ReadBits(input, me_start + 8 + 6 * (i - 1), 6)]

(***************************************************************************)
(* C1                                                                      *)
(***************************************************************************)
C1_Variants ==
    {"AircraftIdentification", "SurfacePosition", "AirborneVelocity", "Reserved",
     "AircraftStatus", "TargetStateAndStatusInformation", "AircraftOperationStatus"}

\* C1: in every successfully decoded DF=17 frame whose ME variant is one of
\* C1_Variants, ME::read consumed exactly 56 bits, the cursor ends at 112 and
\* pi is the last 24 bits of the frame.
C1_MeBlockIs56Bits ==
    (pc = "end" /\ result = "ok" /\ me.val.variant \in C1_Variants) =>
        /\ me.pos - me_start = 56
        /\ cursor = 112
        /\ pi = ReadBits(input, 88, 24)

(***************************************************************************)
(* C2                                                                      *)
(***************************************************************************)
\* the TC table of the claim
C2_Table(tc) ==
    CASE tc \in {1, 2, 3, 4} -> "AircraftIdentification"
      [] tc \in {5, 6, 7, 8} -> "SurfacePosition"
      [] tc \in {9, 10, 11, 12, 13, 14, 15, 16, 17, 18} -> "AirbornePositionBaroAltitude"
      [] tc \in {19} -> "AirborneVelocity"
      [] tc \in {20, 21, 22} -> "AirbornePositionGNSSAltitude"
      [] tc \in {23, 24, 25, 26, 27} -> "Reserved"
      [] tc \in {28} -> "AircraftStatus"
      [] tc \in {29} -> "TargetStateAndStatusInformation"
      [] tc \in {31} -> "AircraftOperationStatus"

\* C2: once ME::read has been applied, the arm it entered is the table's
\* variant of the wire type code (and a decoded ME is of that variant); for
\* type code 0 or 30 no arm is entered and the decode fails.
C2_DispatchByTypeCode ==
    MeRead =>
        /\ WireTC \notin {0, 30} =>
              /\ Len(me.sel) >= 1
              /\ me.sel[1] = C2_Table(WireTC)
              /\ me.ok => me.val.variant = C2_Table(WireTC)
        /\ WireTC \in {0, 30} =>
              /\ ~me.ok
              /\ me.sel = <<"None">>
              /\ result = "err"

\* a GNSS-altitude frame (TC 22) has been decoded as that variant
C2_Witness ==
    /\ MeRead
    /\ WireTC = 22
    /\ me.ok
    /\ me.val.variant = "AirbornePositionGNSSAltitude"

(***************************************************************************)
(* C3                                                                      *)
(***************************************************************************)
\* C3: for a TC=19 message, st in {1,2} decodes GroundSpeedDecoding and st in
\* {3,4} AirspeedDecoding, both from the 22 bits right after the 5-bit extra
\* field (offset 13 of the ME block); st in {0,5,6,7} fails the decode.
C3_VelocitySubtype ==
    (MeRead /\ WireTC = 19) =>
        LET sub == me_start + 13
        IN /\ WireSub \in {1, 2} =>
                 /\ me.ok
                 /\ me.val.st = WireSub
                 /\ me.val.sub_type.variant = "GroundSpeedDecoding"
                 /\ me.val.sub_type.ew_sign = ReadBits(input, sub, 1)
                 /\ me.val.sub_type.ew_vel = ReadBits(input, sub + 1, 10)
                 /\ me.val.sub_type.ns_sign = ReadBits(input, sub + 11, 1)
                 /\ me.val.sub_type.ns_vel = ReadBits(input, sub + 12, 10)
           /\ WireSub \in {3, 4} =>
                 /\ me.ok
                 /\ me.val.st = WireSub
                 /\ me.val.sub_type.variant = "AirspeedDecoding"
                 /\ me.val.sub_type.status_heading = ReadBits(input, sub, 1)
                 /\ me.val.sub_type.mag_heading = ReadBits(input, sub + 1, 10)
                 /\ me.val.sub_type.airspeed_type = ReadBits(input, sub + 11, 1)
                 /\ me.val.sub_type.airspeed = ReadBits(input, sub + 12, 10)
           /\ WireSub \in {0, 5, 6, 7} =>
                 /\ ~me.ok
                 /\ result = "err"

\* a supersonic ground-speed message (st = 2) with a non-zero east-west
\* velocity has been decoded
C3_Witness ==
    /\ MeRead
    /\ WireTC = 19
    /\ WireSub = 2
    /\ me.ok
    /\ me.val.sub_type.variant = "GroundSpeedDecoding"
    /\ me.val.sub_type.ew_vel = 1023

(***************************************************************************)
(* C4                                                                      *)
(***************************************************************************)
\* C4: for a TC=31 message, OperationStatus::read enters Airborne for subtype
\* 0 and Surface for subtype 1 (and a decoded ME holds that variant); for a
\* subtype in 2..7 the decode fails and no frame is returned.
C4_OperationStatusSubtype ==
    (MeRead /\ WireTC = 31) =>
        /\ WireSub = 0 =>
              /\ me.sel = <<"AircraftOperationStatus", "Airborne">>
              /\ me.ok => me.val.os.variant = "Airborne"
        /\ WireSub = 1 =>
              /\ me.sel = <<"AircraftOperationStatus", "Surface">>
              /\ me.ok => me.val.os.variant = "Surface"
        /\ WireSub \in 2..7 =>
              /\ ~me.ok
              /\ pc = "end"
              /\ result = "err"

\* ME::read has returned an OperationStatus::Surface
C4_Witness ==
    /\ MeRead
    /\ WireTC = 31
    /\ WireSub = 1
    /\ me.ok
    /\ me.val.os.variant = "Surface"

(***************************************************************************)
(* C5                                                                      *)
(***************************************************************************)
\* C5: every DF=17 frame with TC=31, subtype 1 and a version_number in
\* {0,1,2} decodes successfully to OperationStatus::Surface, its ME block
\* taking no more than 56 bits.
C5_SurfaceDecodes ==
    (/\ pc = "end"
     /\ MeRead
     /\ WireTC = 31
     /\ WireSub = 1
     /\ ReadBits(input, me_start + 44, 3) \in 0..2) =>
        /\ result = "ok"
        /\ me.val.os.variant = "Surface"
        /\ me.pos - me_start <= 56

(***************************************************************************)
(* C6, C7                                                                  *)
(***************************************************************************)
\* the callsign table as the claim states it
C7_Char(c) ==
    IF c \in 1..26
    THEN <<"A", "B", "C", "D", "E", "F", "G", "H", "I", "J", "K", "L", "M",
           "N", "O", "P", "Q", "R", "S", "T", "U", "V", "W", "X", "Y", "Z">>[c]
    ELSE IF c \in 48..57
    THEN <<"0", "1", "2", "3", "4", "5", "6", "7", "8", "9">>[c - 47]
    ELSE IF c = 32 THEN " "
    ELSE "#"

NotSpace(c) == c # 32

\* the table characters of the codes different from 32, in order
C7_CallsignOf(codes) ==
    LET kept == SelectSeq(codes, NotSpace)
    IN [i \in 1..Len(kept) |-> C7_Char(kept[i])]

\* C6: Identification decoding consumes the whole 56-bit ME block (5-bit
\* type code, 3-bit category, 8 codes of 6 bits) and the callsign is made of
\* all 8 wire codes.
C6_EightCharacters ==
    (MeRead /\ WireTC \in 1..4) =>
        /\ me.ok
        /\ me.pos - me_start = 56
        /\ me.val.cn = C7_CallsignOf(WireCodes(8))

\* C7: the callsign is the sequence of table characters of the codes read
\* (the 6-bit groups between the category and the cursor ME::read returns)
\* that differ from 32, in wire order, and never contains a space.
C7_CallsignStripsSpaces ==
    (MeRead /\ WireTC \in 1..4 /\ me.ok) =>
        LET n == (me.pos - me_start - 8) \div 6
        IN /\ n >= 1
           /\ me.val.cn = C7_CallsignOf(WireCodes(n))
           /\ \A i \in 1..Len(me.val.cn) : me.val.cn[i] # " "

\* a callsign whose first code is invalid and whose fourth is a space has
\* been decoded: the '#' is kept, the inner space dropped
C7_Witness ==
    /\ MeRead
    /\ WireTC = 4
    /\ me.ok
    /\ WireCodes(4) = <<0, 2, 3, 32>>
    /\ Len(me.val.cn) >= 4
    /\ me.val.cn[1] = "#"
    /\ me.val.cn[4] = "E"

(***************************************************************************)
(* C8, C9, C10                                                             *)
(***************************************************************************)
\* calculate() has been applied to a ground-speed AirborneVelocity
CalculatedGroundSpeed ==
    /\ calc.called
    /\ me.val.sub_type.variant = "GroundSpeedDecoding"

\* the raw fields of a TC=19 ground-speed message on the wire
WireEwSign == ReadBits(input, me_start + 13, 1)
WireEwVel == ReadBits(input, me_start + 14, 10)
WireNsSign == ReadBits(input, me_start + 24, 1)
WireNsVel == ReadBits(input, me_start + 25, 10)
WireVrateSign == ReadBits(input, me_start + 36, 1)
WireVrateValue == ReadBits(input, me_start + 37, 9)

\* sign bit 0 -> +1, 1 -> -1
SignOf(bit) == IF bit = 0 THEN 1 ELSE -1

\* C8: for a ground-speed message calculate() reports the vertical rate
\* (vrate_value - 1) * 64 * sign for every vrate_value >= 1 and reports
\* None exactly when vrate_value = 0.
C8_VerticalRate ==
    CalculatedGroundSpeed =>
        /\ WireVrateValue >= 1 =>
              /\ calc.some
              /\ calc.vertical_rate = (WireVrateValue - 1) * 64 * SignOf(WireVrateSign)
        /\ WireVrateValue = 0 <=> ~calc.some

\* the largest vertical rate, descending: vrate_value = 511, sign bit 1
C8_Witness ==
    /\ CalculatedGroundSpeed
    /\ WireVrateValue = 511
    /\ WireVrateSign = 1
    /\ calc.some
    /\ calc.vertical_rate = -32640

\* C9: for a ground-speed message calculate() returns None whenever ew_vel = 0
\* or ns_vel = 0, and otherwise uses v_ew = (ew_vel - 1) * ew_sign and
\* v_ns = (ns_vel - 1) * ns_sign.
C9_ZeroVelocityIsNone ==
    CalculatedGroundSpeed =>
        /\ (WireEwVel = 0 \/ WireNsVel = 0) => ~calc.some
        /\ (WireEwVel # 0 /\ WireNsVel # 0 /\ calc.some) =>
              /\ calc.v_ew = (WireEwVel - 1) * SignOf(WireEwSign)
              /\ calc.v_ns = (WireNsVel - 1) * SignOf(WireNsSign)

\* C10: for st = 2 both velocity components are multiplied by 4 before
\* signing, so the ground speed is 4 times that of st = 1 with the same
\* fields (its square 16 times).
C10_SupersonicTimesFour ==
    (CalculatedGroundSpeed /\ calc.some /\ me.val.st = 2) =>
        /\ calc.v_ew = 4 * (WireEwVel - 1) * SignOf(WireEwSign)
        /\ calc.v_ns = 4 * (WireNsVel - 1) * SignOf(WireNsSign)
        /\ calc.ground_speed_sq
               = 16 * Calculate([me.val EXCEPT !.st = 1]).ground_speed_sq

\* C11: whenever calculate() returns a result the heading is in [0, 360):
\* it is one of the bases 0, 90, 180, 270 plus an atan term in [0, 90); an
\* angle is negative exactly when v_ew < 0 and is then shifted by +360, and
\* the shifted angle stays at least atan(1 / 32767) degrees below 360 (far
\* more than the spacing of f64 near 360, so the sum never rounds up to
\* 360.0); with ew_vel = ns_vel = 1 the heading is 0 and the speed is 0.
C11_HeadingRange ==
    (CalculatedGroundSpeed /\ calc.some) =>
        /\ calc.h = Atan2Deg(calc.v_ew, calc.v_ns)
        /\ Negative(calc.h) <=> calc.v_ew < 0
        /\ Negative(calc.h) => calc.heading = Angle(calc.h.base + 360, calc.h.num, calc.h.den)
        /\ ~Negative(calc.h) => calc.heading = calc.h
        /\ calc.heading.base \in {0, 90, 180, 270}
        /\ calc.heading.num >= 0 /\ calc.heading.num <= 32767
        /\ calc.heading.den >= 1
        /\ (WireEwVel = 1 /\ WireNsVel = 1) =>
              /\ calc.v_ew = 0 /\ calc.v_ns = 0
              /\ calc.heading = Angle(0, 0, 1)
              /\ calc.ground_speed_sq = 0

\* a north-west track: v_ew = -1, v_ns = 1, atan2 = -45, heading 315
C11_Witness ==
    /\ CalculatedGroundSpeed /\ calc.some
    /\ WireEwSign = 1 /\ WireEwVel = 2 /\ WireNsSign = 0 /\ WireNsVel = 2
    /\ me.val.st = 1
    /\ calc.h = Angle(-90, 1, 1)
    /\ calc.heading = Angle(270, 1, 1)

\* the raw rescaled fields on the wire
WireTargetAltitude == ReadBits(input, me_start + 8, 12)
WireGnssBaroDiff == ReadBits(input, me_start + 49, 7)

\* C12: the decoded 12-bit target altitude is 0 for raw 0 and raw 1 and
\* (raw - 1) * 32 for raw >= 2; the decoded 7-bit GNSS-baro difference is 0
\* for raw 0 and raw 1 and (raw - 1) * 25 for raw >= 2.
C12_ZeroSentinelMaps ==
    (MeRead /\ me.ok) =>
        /\ (WireTC = 29) =>
              /\ me.val.variant = "TargetStateAndStatusInformation"
              /\ (WireTargetAltitude \in {0, 1}) => me.val.altitude = 0
              /\ (WireTargetAltitude >= 2) =>
                     me.val.altitude = (WireTargetAltitude - 1) * 32
        /\ (WireTC = 19) =>
              /\ me.val.variant = "AirborneVelocity"
              /\ (WireGnssBaroDiff \in {0, 1}) => me.val.gnss_baro_diff = 0
              /\ (WireGnssBaroDiff >= 2) =>
                     me.val.gnss_baro_diff = (WireGnssBaroDiff - 1) * 25

\* the largest raw target altitude, decoded
C12_Witness ==
    /\ MeRead /\ me.ok /\ result = "ok"
    /\ WireTC = 29
    /\ WireTargetAltitude = 4095
    /\ me.val.altitude = 131008

\* the 3-bit control field of a DF=18 frame on the wire
WireCF == ReadBits(input, 5, 3)
CfRead == pc = "end" /\ df = 18           \* ControlField::read has been applied

\* C13: ControlField::read accepts control field 0 and 1 only as an
\* announced-address message (ADSB_ICAO) and 6 only as a DF17-shaped ADSB
\* body; with control field 2, 3, 4, 5 or 7 it returns an error, the frame
\* fails and no variant is entered.
C13_ControlFieldAccepted ==
    CfRead =>
        /\ (WireCF \in {2, 3, 4, 5, 7}) =>
              /\ ~cf.ok /\ cf.err = "Parse" /\ cf.sel = <<>>
              /\ result = "err"
        /\ cf.ok => WireCF \in {0, 1, 6}
        /\ (cf.sel # <<>>) =>
              /\ WireCF = 0 <=> cf.sel[1] = "ADSB_ES_NT"
              /\ WireCF = 1 <=> cf.sel[1] = "ADSB_ES_NT_ALT"
              /\ WireCF = 6 <=> cf.sel[1] = "TISB_DF17"
        /\ (cf.ok /\ WireCF \in {0, 1}) => cf.val.variant = "ADSB_ICAO"
        /\ (cf.ok /\ WireCF = 6) => cf.val.variant = "ADSB"

\* a frame with control field 2 (fine-format TIS-B) has failed
C13_Witness ==
    /\ CfRead /\ WireCF = 2
    /\ ~cf.ok /\ cf.err = "Parse"
    /\ result = "err"

\* max(raw - 1, 0): the rescaling with raw 0 treated as no data
Rescaled(raw) == IF raw = 0 THEN 0 ELSE raw - 1

\* C14: no arithmetic on a decoded raw field wraps, underflows or overflows,
\* and every value - 1 rescaling yields 0 for raw 0: read_v returns
\* Rescaled(raw) (times 4 for Supersonic) without panicking, calculate()
\* uses Rescaled(vel) * sign for both components and (vrate_value - 1) * 64
\* * sign for the vertical rate, and the target-altitude and GNSS-baro maps
\* return Rescaled(raw) * 32 and Rescaled(raw) * 25.
C14_NoWrapZeroIsNoData ==
    /\ subfields.called =>
          /\ subfields.outcome = "ok"
          /\ subfields.vew
                = (IF subfields.t = "Supersonic" THEN 4 ELSE 1) * Rescaled(WireEwVel)
          /\ subfields.vns
                = (IF subfields.t = "Supersonic" THEN 4 ELSE 1) * Rescaled(WireNsVel)
    /\ (CalculatedGroundSpeed /\ calc.some) =>
          /\ calc.v_ew = Rescaled(WireEwVel) * SignOf(WireEwSign)
          /\ calc.v_ns = Rescaled(WireNsVel) * SignOf(WireNsSign)
          /\ calc.vertical_rate = (WireVrateValue - 1) * 64 * SignOf(WireVrateSign)
    /\ (MeRead /\ me.ok /\ WireTC = 19) =>
          me.val.gnss_baro_diff = Rescaled(WireGnssBaroDiff) * 25
    /\ (MeRead /\ me.ok /\ WireTC = 29) =>
          me.val.altitude = Rescaled(WireTargetAltitude) * 32

\* C15: no line read by main's loop is fatal and a line that yielded no
\* frame leaves the store without a new entry; every iteration ends with
\* the input cleared, the store pruned and the display redrawn from it
\* before the next line is read; the store gains an entry only at the end
\* of an iteration whose frame decoded as DF=17 with ME
\* AirbornePositionBaroAltitude, and the entry is that frame's ICAO.
C15_LineFailureNotFatal ==
    [][ /\ pc' # "panic"
        /\ (pc' = "read") =>
              /\ pc = "end"
              /\ input' = <<>>
              /\ airplains' \subseteq airplains \cup {icao}
              /\ screen' = airplains'
        /\ (pc = "end" /\ pc' = "read" /\ result # "ok") =>
              airplains' \subseteq airplains
        /\ ~(airplains' \subseteq airplains) =>
              /\ pc = "end" /\ result = "ok" /\ df = 17
              /\ me.ok /\ me.val.variant = "AirbornePositionBaroAltitude"
              /\ airplains' \ airplains = {icao}
              /\ icao = ReadBits(input, 8, 24)
      ]_vars

\* the 3-bit subtype and emergency state of a TC=28 message on the wire
WireStatusSubType == ReadBits(input, me_start + 5, 3)
WireEmergencyState == ReadBits(input, me_start + 8, 3)

\* C16: a DF=17 frame with TC=28 decodes for each of the 8 subtypes and
\* each of the 8 emergency states: the decode succeeds, the subtype is
\* NoInformation for 0, EmergencyPriorityStatus for 1 and Reserved for
\* 2..7, and the emergency state is the one on the wire.
C16_AircraftStatusDecodes ==
    (pc = "end" /\ df = 17 /\ MeRead /\ Len(input) = 112 /\ WireTC = 28) =>
        /\ me.ok
        /\ result = "ok"
        /\ me.val.variant = "AircraftStatus"
        /\ me.val.sub_type
              = (CASE WireStatusSubType = 0 -> "NoInformation"
                   [] WireStatusSubType = 1 -> "EmergencyPriorityStatus"
                   [] OTHER -> "Reserved")
        /\ me.val.emergency_state = WireEmergencyState

====
